---- MODULE Spec2Model ----
(***************************************************************************)
(* nsrlsvr helper scripts: convert-format.py (free-text hash extraction    *)
(* into src/NSRLFile.txt) and denistify.py (fixed-offset MD5 extraction    *)
(* from NSRLFile.txt into dummyfile).                                      *)
(*                                                                         *)
(* Text is modelled character by character: a string is a sequence of      *)
(* one-character strings, a file is a record [exists, data] whose data is  *)
(* the sequence of its characters.  One process runs at a time; when it    *)
(* has exited another one may be started on the file system it left.       *)
(***************************************************************************)
EXTENDS Integers, Sequences, FiniteSets, TLC

VARIABLES
    prog,       \* which script the runs execute: "convert" or "denistify"
    fs,         \* file system: path -> [exists, data]
    unreadable, \* paths without read permission
    pc,         \* position of the running process ("done": exited)
    argv,       \* sys.argv[1:] of the running process
    hashes,     \* convert-format.py: the list `hashes`
    idx,        \* convert-format.py: position of the write loop in `hashes`
    handles,    \* the <<path, mode>> the running process holds open
    instream,   \* denistify.py: unread rest of infile
    line,       \* denistify.py: the variable `line`
    count,      \* denistify.py: the variable `count`
    stdout,     \* what the running process has printed
    exit,       \* <<>> while running, <<status>> once exited
    in0,        \* the input file as it was when the run started
    out0,       \* the output file as it was when the run started
    outFromRun, \* the output file holds the complete output of a run that exited 0
    rerun       \* the run was given, as its input, such an output file

vars == <<prog, fs, unreadable, pc, argv, hashes, idx, handles, instream, line,
          count, stdout, exit, in0, out0, outFromRun, rerun>>

(***************************************************************************)
(* Bounds of the model.                                                    *)
(***************************************************************************)
\* the most lines an input file holds
MaxLines == 2

(***************************************************************************)
(* Program constants.                                                      *)
(***************************************************************************)
Md5Len == 32
Sha1Len == 40
Sha256Len == 64
SliceFrom == 44
SliceTo == 76
ProgressEvery == 1000
ExitNoFile == -1
ExitUnreadable == -2
ExitZero == -4
\* the status of the zero-hashes exit, used again
ExitMixedAsZero == ExitZero
ExitMixed == -8
ExitUncaught == 1

InPath == "in.txt"
OutPath == "src/NSRLFile.txt"
NsrlPath == "NSRLFile.txt"
DummyPath == "dummyfile"
Paths == {InPath, OutPath, NsrlPath, DummyPath}

(***************************************************************************)
(* Characters and strings.                                                 *)
(***************************************************************************)
\* the character class [0-9A-Fa-f]
HexChars ==
    {"0", "1", "2", "3", "4", "5", "6", "7", "8", "9",
     "A", "B", "C", "D", "E", "F", "a", "b", "c", "d", "e", "f"}

UpperOf ==
    [a |-> "A", b |-> "B", c |-> "C", d |-> "D", e |-> "E", f |-> "F",
     g |-> "G", h |-> "H", i |-> "I", j |-> "J", k |-> "K", l |-> "L",
     m |-> "M", n |-> "N", o |-> "O", p |-> "P", q |-> "Q", r |-> "R",
     s |-> "S", t |-> "T", u |-> "U", v |-> "V", w |-> "W", x |-> "X",
     y |-> "Y", z |-> "Z"]

\* str.upper()
Upper(s) ==
    [k \in 1..Len(s) |-> IF s[k] \in DOMAIN UpperOf THEN UpperOf[s[k]] ELSE s[k]]

Min(a, b) == IF a <= b THEN a ELSE b

\* s[from:to] of Python, for 0 <= from <= to
Slice(s, from, to) ==
    IF from >= Len(s) THEN <<>> ELSE SubSeq(s, from + 1, Min(to, Len(s)))

\* whether s[i .. i+n-1] (1-based) is n characters of [0-9A-Fa-f]
IsHexRun(s, i, n) ==
    /\ i + n - 1 <= Len(s)
    /\ \A k \in i..(i + n - 1) : s[k] \in HexChars

\* the alternation with a CRC32 alternative of 8 characters added
HashLensWithCrc == <<Sha256Len, Sha1Len, Md5Len, 8>>

\* the alternation written shortest first
HashLensShortestFirst == <<Md5Len, Sha1Len, Sha256Len>>

\* the alternation of hash_re, in the order the regex engine tries it
HashLens == <<Sha256Len, Sha1Len, Md5Len>>

\* the length the alternation matches at position i of s, 0 when none does
MatchAt(s, i) ==
    IF \E a \in 1..Len(HashLens) : IsHexRun(s, i, HashLens[a])
    THEN HashLens[CHOOSE a \in 1..Len(HashLens) :
                    /\ IsHexRun(s, i, HashLens[a])
                    /\ \A b \in 1..(a - 1) : ~IsHexRun(s, i, HashLens[b])]
    ELSE 0

\* hash_re.search(s): <<>> for None, else <<group(1)>>
Search(s) ==
    IF \E i \in 1..Len(s) : MatchAt(s, i) > 0
    THEN LET i == CHOOSE j \in 1..Len(s) :
                    /\ MatchAt(s, j) > 0
                    /\ \A k \in 1..(j - 1) : MatchAt(s, k) = 0
         IN  <<SubSeq(s, i, i + MatchAt(s, i) - 1)>>
    ELSE <<>>

\* md5_re.match(s) for ^[A-Fa-f0-9]{32}$: $ also matches before a final newline
Md5Match(s) ==
    /\ IsHexRun(s, 1, Md5Len)
    /\ \/ Len(s) = Md5Len
       \/ Len(s) = Md5Len + 1 /\ s[Len(s)] = "\n"

\* the length of file.readline() on the unread text s: up to and with the first newline
ReadlineLen(s) ==
    IF \E i \in 1..Len(s) : s[i] = "\n"
    THEN CHOOSE i \in 1..Len(s) : s[i] = "\n" /\ \A k \in 1..(i - 1) : s[k] # "\n"
    ELSE Len(s)

RECURSIVE Readlines(_)
\* file.readlines(): the lines of s, each with its newline
Readlines(s) ==
    IF s = <<>> THEN <<>>
    ELSE <<SubSeq(s, 1, ReadlineLen(s))>>
            \o Readlines(SubSeq(s, ReadlineLen(s) + 1, Len(s)))

\* exit(n) of Python as the status the parent process sees: its low 8 bits
ExitStatus(n) == n % 256

Absent == [exists |-> FALSE, data |-> <<>>]
File(d) == [exists |-> TRUE, data |-> d]

\* os.access(path, os.R_OK)
Access(path) == fs[path].exists /\ path \notin unreadable

(***************************************************************************)
(* Input texts the runs are given.                                         *)
(***************************************************************************)
Md5Lower ==
    <<"d", "4", "1", "d", "8", "c", "d", "9", "8", "f", "0", "0", "b", "2",
      "0", "4", "e", "9", "8", "0", "0", "9", "9", "8", "e", "c", "f", "8",
      "4", "2", "7", "e">>

Md5Upper ==
    <<"A", "B", "C", "D", "E", "F", "0", "0", "1", "1", "2", "2", "3", "3",
      "4", "4", "5", "5", "6", "6", "7", "7", "8", "8", "9", "9", "A", "A",
      "B", "B", "C", "C">>

Sha1Lower ==
    <<"d", "a", "3", "9", "a", "3", "e", "e", "5", "e", "6", "b", "4", "b",
      "0", "d", "3", "2", "5", "5", "b", "f", "e", "f", "9", "5", "6", "0",
      "1", "8", "9", "0", "a", "f", "d", "8", "0", "7", "0", "9">>

Sha256Lower ==
    <<"e", "3", "b", "0", "c", "4", "4", "2", "9", "8", "f", "c", "1", "c",
      "1", "4", "9", "a", "f", "b", "f", "4", "c", "8", "9", "9", "6", "f",
      "b", "9", "2", "4", "2", "7", "a", "e", "4", "1", "e", "4", "6", "4",
      "9", "b", "9", "3", "4", "c", "a", "4", "9", "5", "9", "9", "1", "b",
      "7", "8", "5", "2", "b", "8", "5", "5">>

Md5FF ==
    <<"F", "F", "0", "1", "0", "2", "0", "3", "0", "4", "0", "5", "0", "6",
      "0", "7", "0", "8", "0", "9", "0", "A", "0", "B", "0", "C", "0", "D",
      "0", "E", "0", "F">>

Md500 ==
    <<"0", "0", "1", "1", "2", "2", "3", "3", "4", "4", "5", "5", "6", "6",
      "7", "7", "8", "8", "9", "9", "A", "A", "B", "B", "C", "C", "D", "D",
      "E", "E", "F", "F">>

Sha1Upper ==
    <<"0", "0", "0", "0", "0", "0", "2", "0", "6", "7", "3", "8", "7", "4",
      "8", "E", "D", "D", "9", "2", "C", "4", "E", "3", "D", "2", "E", "8",
      "2", "3", "8", "9", "6", "7", "0", "0", "F", "8", "4", "9">>

NsrlHeader ==
    <<"\"", "S", "H", "A", "-", "1", "\"", ",", "\"", "M", "D", "5", "\"",
      ",", "\"", "C", "R", "C", "3", "2", "\"", ",", "\"", "F", "i", "l",
      "e", "N", "a", "m", "e", "\"", ",", "\"", "F", "i", "l", "e", "S", "i",
      "z", "e", "\"", ",", "\"", "P", "r", "o", "d", "u", "c", "t", "C", "o",
      "d", "e", "\"", ",", "\"", "O", "p", "S", "y", "s", "t", "e", "m", "C",
      "o", "d", "e", "\"", ",", "\"", "S", "p", "e", "c", "i", "a", "l", "C",
      "o", "d", "e", "\"", "\n">>

NsrlTail ==
    <<"\"", ",", "\"", "D", "C", "2", "3", "1", "1", "F", "F", "\"", ",",
      "\"", "s", "e", "t", "u", "p", ".", "e", "x", "e", "\"", ",", "4", "0",
      "9", "6", ",", "1", ",", "\"", "3", "5", "8", "\"", ",", "\"", "\"",
      "\n">>

NL == <<"\n">>

\* lines given to convert-format.py
LMd5 == Md5Lower \o NL
LMd5Text == <<"M", "D", "5", " ", "(", "a", ".", "d", "l", "l", ")", " ", "=", " ">> \o Md5Upper \o NL
LSha1 == Sha1Lower \o NL
LSha256 == Sha256Lower \o <<" ", " ", "s", "e", "t", "u", "p", ".", "e", "x", "e">> \o NL
LNoHash == <<"#", " ", "d", "e", "a", "d", "b", "e", "e", "f">> \o NL
LBoth == Md5Lower \o <<" ", " ">> \o Sha256Lower \o NL
LRun == Sha1Lower \o Md5Upper \o NL
LCanon == Md500 \o NL
ConvertLines == {LMd5, LMd5Text, LSha1, LSha256, LNoHash, LBoth, LRun, LCanon}

\* lines given to denistify.py: "<sha1>","<md5>",... as the NSRL export has them
Record(md5) == <<"\"">> \o Sha1Upper \o <<"\"", ",", "\"">> \o md5 \o NsrlTail
DRecFF == Record(Md5FF)
DRec00 == Record(Md500)
DRecLower == Record(Md5Lower)
DCut == <<"\"">> \o Sha1Upper \o <<"\"", ",", "\"">> \o SubSeq(Md5FF, 1, 6) \o NL
DBlank == NL
DenistifyLines == {DRecFF, DRec00, DRecLower, NsrlHeader, DCut, DBlank}

\* what an output file holds before the first run: a list in non-canonical case
OldOutput == Md5Lower \o NL

RECURSIVE Concat(_)
Concat(ls) == IF ls = <<>> THEN <<>> ELSE Head(ls) \o Concat(Tail(ls))

\* the texts of at most MaxLines lines drawn from ls
Texts(ls) == {Concat(t) : t \in UNION {[1..n -> ls] : n \in 0..MaxLines}}

Disk(inPath, inFile, outPath, outFile) ==
    [p \in Paths |-> IF p = inPath THEN inFile ELSE IF p = outPath THEN outFile ELSE Absent]

Worlds ==
    {[prog |-> "convert", fs |-> Disk(InPath, i, OutPath, o), unreadable |-> u] :
        i \in {Absent} \cup {File(t) : t \in Texts(ConvertLines)},
        o \in {Absent, File(OldOutput)},
        u \in {{}, {InPath}}}
    \cup
    {[prog |-> "denistify", fs |-> Disk(NsrlPath, i, DummyPath, o), unreadable |-> u] :
        i \in {Absent} \cup {File(t) : t \in Texts(DenistifyLines)},
        o \in {Absent, File(OldOutput)},
        u \in {{}, {NsrlPath}}}

\* the command lines convert-format.py is started with
ArgChoices == {<<>>, <<InPath>>, <<OutPath>>, <<InPath, OutPath>>}

OutputPath == IF prog = "convert" THEN OutPath ELSE DummyPath

Init ==
    /\ \E w \in Worlds :
        /\ prog = w.prog
        /\ fs = w.fs
        /\ unreadable = w.unreadable
    /\ pc = "idle"
    /\ argv = <<>>
    /\ hashes = <<>>
    /\ idx = 0
    /\ handles = {}
    /\ instream = <<>>
    /\ line = <<>>
    /\ count = 0
    /\ stdout = <<>>
    /\ exit = <<>>
    /\ in0 = Absent
    /\ out0 = Absent
    /\ outFromRun = FALSE
    /\ rerun = FALSE

(***************************************************************************)
(* convert-format.py                                                       *)
(***************************************************************************)
RECURSIVE CollectHashes(_)
\* [hash_re.search(X).group(1) for X in lines if hash_re.search(X)]
CollectHashes(lines) ==
    IF lines = <<>> THEN <<>>
    ELSE Search(Head(lines)) \o CollectHashes(Tail(lines))

\* the comparison started one element late: hashes[2:]
MixedLengthsFromThird(hs) == \E i \in 3..Len(hs) : Len(hs[i]) # Len(hs[1])

\* [X for X in hashes[1:] if len(X) != first_len], as a truth value
MixedLengths(hs) == \E i \in 2..Len(hs) : Len(hs[i]) # Len(hs[1])

\* open(path, "a"): created, or kept as it is
OpenForAppend(f) == IF f.exists THEN f ELSE File(<<>>)

\* open(path, "w") on the file f: created or truncated
OpenForWrite(f) == File(<<>>)

\* file.write(s) on the file f
WriteTo(f, s) == File(f.data \o s)

\* a process is started: python convert-format.py a...
RunConvert(a) ==
    /\ prog = "convert"
    /\ pc \in {"idle", "done"}
    /\ argv' = a
    /\ hashes' = <<>>
    /\ idx' = 0
    /\ handles' = {}
    /\ stdout' = <<>>
    /\ exit' = <<>>
    /\ in0' = IF Len(a) = 1 THEN fs[a[1]] ELSE Absent
    /\ out0' = fs[OutPath]
    /\ rerun' = (a = <<OutPath>> /\ outFromRun)
    /\ pc' = "c_args"
    /\ UNCHANGED <<prog, fs, unreadable, instream, line, count, outFromRun>>

\* if len(sys.argv) != 2: print; exit(-1)
CheckArgs ==
    /\ pc = "c_args"
    /\ IF Len(argv) + 1 # 2
       THEN /\ stdout' = Append(stdout, "No file specified.")
            /\ exit' = <<ExitStatus(ExitNoFile)>>
            /\ pc' = "done"
       ELSE /\ pc' = "c_access"
            /\ UNCHANGED <<stdout, exit>>
    /\ UNCHANGED <<prog, fs, unreadable, argv, hashes, idx, handles, instream, line,
                   count, in0, out0, outFromRun, rerun>>

\* if not os.access(sys.argv[1], os.R_OK): print; exit(-2)
CheckAccess ==
    /\ pc = "c_access"
    /\ IF ~Access(argv[1])
       THEN /\ stdout' = Append(stdout, "Couldn't read " \o argv[1])
            /\ exit' = <<ExitStatus(ExitUnreadable)>>
            /\ pc' = "done"
       ELSE /\ pc' = "c_open_in"
            /\ UNCHANGED <<stdout, exit>>
    /\ UNCHANGED <<prog, fs, unreadable, argv, hashes, idx, handles, instream, line,
                   count, in0, out0, outFromRun, rerun>>

\* with open(sys.argv[1]) as fh, open("src/NSRLFile.txt", "w") as output:
OpenBothFirst ==
    /\ pc = "c_open_in"
    /\ handles' = handles \cup {<<argv[1], "r">>, <<OutPath, "w">>}
    /\ fs' = [fs EXCEPT ![OutPath] = File(<<>>)]
    /\ outFromRun' = FALSE
    /\ pc' = "c_read"
    /\ UNCHANGED <<prog, unreadable, argv, hashes, idx, instream, line, count,
                   stdout, exit, in0, out0, rerun>>

\* with open(sys.argv[1]) as fh:
OpenInput ==
    /\ pc = "c_open_in"
    /\ handles' = handles \cup {<<argv[1], "r">>}
    /\ pc' = "c_read"
    /\ UNCHANGED <<prog, fs, unreadable, argv, hashes, idx, instream, line, count,
                   stdout, exit, in0, out0, outFromRun, rerun>>

\* hashes = [... for X in fh.readlines() if ...]
ReadHashes ==
    /\ pc = "c_read"
    /\ hashes' = CollectHashes(Readlines(fs[argv[1]].data))
    /\ pc' = "c_close_in"
    /\ UNCHANGED <<prog, fs, unreadable, argv, idx, handles, instream, line, count,
                   stdout, exit, in0, out0, outFromRun, rerun>>

\* the with block of fh ends
CloseInput ==
    /\ pc = "c_close_in"
    /\ handles' = handles \ {<<argv[1], "r">>}
    /\ pc' = "c_empty"
    /\ UNCHANGED <<prog, fs, unreadable, argv, hashes, idx, instream, line, count,
                   stdout, exit, in0, out0, outFromRun, rerun>>

\* if not hashes: print; exit(-4)
CheckEmpty ==
    /\ pc = "c_empty"
    /\ IF hashes = <<>>
       THEN /\ stdout' = Append(stdout, "Zero hashes found -- check to see if this is correct.")
            /\ exit' = <<ExitStatus(ExitZero)>>
            /\ pc' = "done"
       ELSE /\ pc' = "c_mixed"
            /\ UNCHANGED <<stdout, exit>>
    /\ UNCHANGED <<prog, fs, unreadable, argv, hashes, idx, handles, instream, line,
                   count, in0, out0, outFromRun, rerun>>

\* first_len = len(hashes[0]); if [X for ...]: print; exit(-8)
CheckMixed ==
    /\ pc = "c_mixed"
    /\ IF MixedLengths(hashes)
       THEN /\ stdout' = Append(stdout, "Multiple different hash algorithms present in " \o argv[1])
            /\ exit' = <<ExitStatus(ExitMixed)>>
            /\ pc' = "done"
       ELSE /\ pc' = "c_open_out"
            /\ UNCHANGED <<stdout, exit>>
    /\ UNCHANGED <<prog, fs, unreadable, argv, hashes, idx, handles, instream, line,
                   count, in0, out0, outFromRun, rerun>>

\* with open("src/NSRLFile.txt", "w") as output:
OpenOutput ==
    /\ pc = "c_open_out"
    /\ fs' = [fs EXCEPT ![OutPath] = OpenForWrite(fs[OutPath])]
    /\ handles' = handles \cup {<<OutPath, "w">>}
    /\ outFromRun' = FALSE
    /\ idx' = 0
    /\ pc' = "c_write"
    /\ UNCHANGED <<prog, unreadable, argv, hashes, instream, line, count, stdout,
                   exit, in0, out0, rerun>>

\* for hash in hashes: output.write(hash.upper() + "\n")
WriteHash ==
    /\ pc = "c_write"
    /\ idx < Len(hashes)
    /\ fs' = [fs EXCEPT ![OutPath] = WriteTo(fs[OutPath], Upper(hashes[idx + 1]) \o NL)]
    /\ idx' = idx + 1
    /\ UNCHANGED <<prog, unreadable, pc, argv, hashes, handles, instream, line, count,
                   stdout, exit, in0, out0, outFromRun, rerun>>

\* the loop and the with block of output end; the script ends: status 0
FinishConvert ==
    /\ pc = "c_write"
    /\ idx = Len(hashes)
    /\ handles' = handles \ {<<OutPath, "w">>}
    /\ outFromRun' = TRUE
    /\ exit' = <<0>>
    /\ pc' = "done"
    /\ UNCHANGED <<prog, fs, unreadable, argv, hashes, idx, instream, line, count,
                   stdout, in0, out0, rerun>>

(***************************************************************************)
(* denistify.py                                                            *)
(***************************************************************************)
\* the slice taken one character short: [44:75]
NextSliceShort(s) == Slice(SubSeq(s, 1, ReadlineLen(s)), SliceFrom, SliceTo - 1)

\* infile.readline()[44:76] on the unread text s
NextSlice(s) == Slice(SubSeq(s, 1, ReadlineLen(s)), SliceFrom, SliceTo)

\* the unread text after infile.readline()
AfterReadline(s) == SubSeq(s, ReadlineLen(s) + 1, Len(s))

\* a process is started: python denistify.py; count = 0; sys.stdout.write("\n")
RunDenistify ==
    /\ prog = "denistify"
    /\ pc \in {"idle", "done"}
    /\ argv' = <<>>
    /\ hashes' = <<>>
    /\ idx' = 0
    /\ handles' = {}
    /\ instream' = <<>>
    /\ line' = <<>>
    /\ count' = 0
    /\ stdout' = <<"\n">>
    /\ exit' = <<>>
    /\ in0' = fs[NsrlPath]
    /\ out0' = fs[DummyPath]
    /\ rerun' = FALSE
    /\ pc' = "d_unlink"
    /\ UNCHANGED <<prog, fs, unreadable, outFromRun>>

\* try: os.unlink("dummyfile") except: pass
Unlink ==
    /\ pc = "d_unlink"
    /\ fs' = [fs EXCEPT ![DummyPath] = Absent]
    /\ outFromRun' = FALSE
    /\ pc' = "d_open_in"
    /\ UNCHANGED <<prog, unreadable, argv, hashes, idx, handles, instream, line, count,
                   stdout, exit, in0, out0, rerun>>

\* with codecs.open("NSRLFile.txt", ...) as infile: IOError ends the process
DOpenInput ==
    /\ pc = "d_open_in"
    /\ IF Access(NsrlPath)
       THEN /\ handles' = handles \cup {<<NsrlPath, "r">>}
            /\ instream' = fs[NsrlPath].data
            /\ pc' = "d_open_out"
            /\ UNCHANGED exit
       ELSE /\ exit' = <<ExitStatus(ExitUncaught)>>
            /\ pc' = "done"
            /\ UNCHANGED <<handles, instream>>
    /\ UNCHANGED <<prog, fs, unreadable, argv, hashes, idx, line, count, stdout,
                   in0, out0, outFromRun, rerun>>

\* with open("dummyfile", "w") as outfile:
DOpenOutput ==
    /\ pc = "d_open_out"
    /\ fs' = [fs EXCEPT ![DummyPath] = OpenForWrite(fs[DummyPath])]
    /\ handles' = handles \cup {<<DummyPath, "w">>}
    /\ pc' = "d_first"
    /\ UNCHANGED <<prog, unreadable, argv, hashes, idx, instream, line, count, stdout,
                   exit, in0, out0, outFromRun, rerun>>

\* line = infile.readline()[44:76]; sys.stdout.write("Hashes processed: 0")
FirstRead ==
    /\ pc = "d_first"
    /\ line' = NextSlice(instream)
    /\ instream' = AfterReadline(instream)
    /\ stdout' = Append(stdout, "Hashes processed: 0")
    /\ pc' = "d_loop"
    /\ UNCHANGED <<prog, fs, unreadable, argv, hashes, idx, handles, count, exit,
                   in0, out0, outFromRun, rerun>>

\* one turn of: while line: ...
LoopTurn ==
    /\ pc = "d_loop"
    /\ line # <<>>
    /\ IF Md5Match(line)
       THEN /\ fs' = [fs EXCEPT ![DummyPath] = WriteTo(fs[DummyPath], line \o NL)]
            /\ stdout' = IF count % ProgressEvery = 0
                         THEN Append(stdout, "\rHashes processed: " \o ToString(count))
                         ELSE stdout
            /\ count' = count + 1
       ELSE UNCHANGED <<fs, stdout, count>>
    /\ line' = NextSlice(instream)
    /\ instream' = AfterReadline(instream)
    /\ UNCHANGED <<prog, unreadable, pc, argv, hashes, idx, handles, exit, in0, out0,
                   outFromRun, rerun>>

\* the loop and both with blocks end; the final count is printed; status 0
FinishDenistify ==
    /\ pc = "d_loop"
    /\ line = <<>>
    /\ handles' = {}
    /\ stdout' = Append(stdout, "\rHashes processed: " \o ToString(count) \o "\n")
    /\ outFromRun' = TRUE
    /\ exit' = <<0>>
    /\ pc' = "done"
    /\ UNCHANGED <<prog, fs, unreadable, argv, hashes, idx, instream, line, count,
                   in0, out0, rerun>>

Next ==
    \/ \E a \in ArgChoices : RunConvert(a)
    \/ CheckArgs
    \/ CheckAccess
    \/ OpenInput
    \/ ReadHashes
    \/ CloseInput
    \/ CheckEmpty
    \/ CheckMixed
    \/ OpenOutput
    \/ WriteHash
    \/ FinishConvert
    \/ RunDenistify
    \/ Unlink
    \/ DOpenInput
    \/ DOpenOutput
    \/ FirstRead
    \/ LoopTurn
    \/ FinishDenistify

Spec == Init /\ [][Next]_vars

(***************************************************************************)
(* Vocabulary of the properties.                                           *)
(***************************************************************************)
Done == pc = "done" /\ exit # <<>>
ConvertDone == prog = "convert" /\ Done
DenistifyDone == prog = "denistify" /\ Done

\* the run had one argument, naming a file that was there and readable
InputReadable == Len(argv) = 1 /\ in0.exists /\ argv[1] \notin unreadable

\* the line holds a run of at least 32 hexadecimal characters
HasHash(l) == \E i \in 1..Len(l) : IsHexRun(l, i, Md5Len)

\* where the first such run of the line starts
FirstStart(l) ==
    CHOOSE i \in 1..Len(l) :
        IsHexRun(l, i, Md5Len) /\ \A k \in 1..(i - 1) : ~IsHexRun(l, k, Md5Len)

\* the token of a line: at the leftmost start, the longest of 64, 40, 32 that fits
LeftmostToken(l) ==
    LET i == FirstStart(l)
        n == IF IsHexRun(l, i, Sha256Len) THEN Sha256Len
             ELSE IF IsHexRun(l, i, Sha1Len) THEN Sha1Len ELSE Md5Len
    IN  SubSeq(l, i, i + n - 1)

\* the first substring of n hexadecimal characters of a line that has one
FirstOfLen(l, n) ==
    LET i == CHOOSE j \in 1..Len(l) :
                IsHexRun(l, j, n) /\ \A k \in 1..(j - 1) : ~IsHexRun(l, k, n)
    IN  SubSeq(l, i, i + n - 1)

\* the token of a line with length precedence over position: 64 anywhere, else 40, else 32
LongestToken(l) ==
    IF \E i \in 1..Len(l) : IsHexRun(l, i, Sha256Len) THEN FirstOfLen(l, Sha256Len)
    ELSE IF \E i \in 1..Len(l) : IsHexRun(l, i, Sha1Len) THEN FirstOfLen(l, Sha1Len)
    ELSE FirstOfLen(l, Md5Len)

\* the lines of a text that hold a hash, in their order
HashLines(text) == SelectSeq(Readlines(text), HasHash)

\* the lengths of the tokens of the input's lines
TokenLens(text) == {Len(LeftmostToken(HashLines(text)[k])) : k \in 1..Len(HashLines(text))}

\* the text holds a run of exactly n hexadecimal characters, not part of a longer one
HasTokenOfLen(text, n) ==
    \E i \in 1..Len(text) :
        /\ IsHexRun(text, i, n)
        /\ i = 1 \/ text[i - 1] \notin HexChars
        /\ i + n > Len(text) \/ text[i + n] \notin HexChars

UpperHex == {"0", "1", "2", "3", "4", "5", "6", "7", "8", "9", "A", "B", "C", "D", "E", "F"}

\* a line of an output file in canonical form: 32, 40 or 64 of 0-9A-F, then a newline
CanonicalLine(l) ==
    /\ Len(l) - 1 \in {Md5Len, Sha1Len, Sha256Len}
    /\ l[Len(l)] = "\n"
    /\ \A k \in 1..(Len(l) - 1) : l[k] \in UpperHex

\* a text a successful run of convert-format.py leaves: canonical lines of one length
CanonicalList(text) ==
    /\ text # <<>>
    /\ \A k \in 1..Len(Readlines(text)) :
        /\ CanonicalLine(Readlines(text)[k])
        /\ Len(Readlines(text)[k]) = Len(Readlines(text)[1])

\* the capital of a hexadecimal character
Capital(c) ==
    CASE c = "a" -> "A" [] c = "b" -> "B" [] c = "c" -> "C"
      [] c = "d" -> "D" [] c = "e" -> "E" [] c = "f" -> "F" [] OTHER -> c

Capitals(s) == [k \in 1..Len(s) |-> Capital(s[k])]

C1_Case ==
    /\ ConvertDone
    /\ InputReadable
    /\ HashLines(in0.data) # <<>>
    /\ Cardinality(TokenLens(in0.data)) = 1

MixedFailure ==
    /\ exit = <<ExitStatus(ExitMixed)>>
    /\ stdout = <<"Multiple different hash algorithms present in " \o argv[1]>>
    /\ fs[OutPath] = out0

C3_Case ==
    /\ ConvertDone
    /\ InputReadable
    /\ {Md5Len, Sha256Len} \subseteq TokenLens(in0.data)

C4_Case ==
    /\ ConvertDone
    /\ InputReadable
    /\ ~\E i \in 1..Len(in0.data) : IsHexRun(in0.data, i, Md5Len)

ExpectedStatus ==
    IF Len(argv) # 1 THEN ExitStatus(ExitNoFile)
    ELSE IF ~InputReadable THEN ExitStatus(ExitUnreadable)
    ELSE IF HashLines(in0.data) = <<>> THEN ExitStatus(ExitZero)
    ELSE IF Cardinality(TokenLens(in0.data)) > 1 THEN ExitStatus(ExitMixed)
    ELSE 0

IsMd5(s) == Len(s) = Md5Len /\ \A k \in 1..Len(s) : s[k] \in HexChars

RECURSIVE SlicesOf(_)
\* the slices [44:76] that are MD5 hashes, of the lines given
SlicesOf(ls) ==
    IF ls = <<>> THEN <<>>
    ELSE (IF IsMd5(Slice(Head(ls), SliceFrom, SliceTo))
          THEN <<Slice(Head(ls), SliceFrom, SliceTo)>> ELSE <<>>) \o SlicesOf(Tail(ls))

RECURSIVE WithNewlines(_)
WithNewlines(ts) == IF ts = <<>> THEN <<>> ELSE Head(ts) \o NL \o WithNewlines(Tail(ts))

AsciiOrder ==
    <<"0", "1", "2", "3", "4", "5", "6", "7", "8", "9",
      "A", "B", "C", "D", "E", "F", "a", "b", "c", "d", "e", "f">>

Ord(c) == CHOOSE i \in 1..Len(AsciiOrder) : AsciiOrder[i] = c

\* a <= b, for two hashes of one length
LexLeq(a, b) ==
    \/ a = b
    \/ \E k \in 1..Len(a) :
        /\ Ord(a[k]) < Ord(b[k])
        /\ \A j \in 1..(k - 1) : a[j] = b[j]

RECURSIVE ReadPrefix(_)
\* the lines denistify.py reads before its loop ends: those before the first
\* line of 44 characters or fewer, newline counted
ReadPrefix(ls) ==
    IF ls = <<>> \/ Len(Head(ls)) <= SliceFrom THEN <<>>
    ELSE <<Head(ls)>> \o ReadPrefix(Tail(ls))

\* the lines of dummyfile, without their newlines
DummyLines ==
    [k \in 1..Len(Readlines(fs[DummyPath].data)) |->
        SubSeq(Readlines(fs[DummyPath].data)[k], 1, Len(Readlines(fs[DummyPath].data)[k]) - 1)]

InputUnreadable ==
    IF prog = "convert"
    THEN Len(argv) = 1 /\ ~(in0.exists /\ argv[1] \notin unreadable)
    ELSE ~(in0.exists /\ NsrlPath \notin unreadable)

HasRead ==
    /\ prog = "convert"
    /\ \/ pc \in {"c_close_in", "c_empty", "c_mixed", "c_open_out", "c_write"}
       \/ pc = "done" /\ exit \in {<<0>>, <<ExitStatus(ExitZero)>>, <<ExitStatus(ExitMixed)>>}

(***************************************************************************)
(* C1: free-text mode, input readable, at least one line matches and all   *)
(* tokens have one length: the run exits 0 and the output file holds, in   *)
(* input order and with duplicates, one line per matching input line, the  *)
(* line's token in capitals; what the file held before is gone.            *)
(***************************************************************************)
C1_UniformInputWritten ==
    C1_Case =>
        /\ exit = <<0>>
        /\ fs[OutPath].exists
        /\ LET out == Readlines(fs[OutPath].data)
               src == HashLines(in0.data)
           IN  /\ Len(out) = Len(src)
               /\ \A k \in 1..Len(src) : out[k] = Capitals(LeftmostToken(src[k])) \o NL

\* two equal tokens in lower case, written over an older file
C1_Witness ==
    /\ C1_Case
    /\ out0 = File(OldOutput)
    /\ in0.data = LMd5 \o LMd5
    /\ fs[OutPath].data = Upper(Md5Lower) \o NL \o Upper(Md5Lower) \o NL

(***************************************************************************)
(* C2: in both programs every line of the output file a run has written    *)
(* is 32, 40 or 64 characters of 0-9A-F.                                   *)
(***************************************************************************)
C2_OutputCanonical ==
    (Done /\ exit = <<0>>) =>
        \A k \in 1..Len(Readlines(fs[OutputPath].data)) :
            CanonicalLine(Readlines(fs[OutputPath].data)[k])

(***************************************************************************)
(* C3 as stated: an input holding a 32-character and a 64-character hash   *)
(* token, wherever they are, fails with the mixed-algorithm error and the  *)
(* output file is untouched.                                               *)
(***************************************************************************)
C3_AnyTwoTokensFail ==
    (/\ ConvertDone
     /\ InputReadable
     /\ HasTokenOfLen(in0.data, Md5Len)
     /\ HasTokenOfLen(in0.data, Sha256Len)) => MixedFailure

(***************************************************************************)
(* C3 amended: when the tokens extracted, one per line, include one of 32  *)
(* and one of 64 characters, the run fails with the mixed-algorithm error  *)
(* (status 248, that is -8) and the output file is untouched.              *)
(***************************************************************************)
C3_ExtractedMixedFail == C3_Case => MixedFailure

C3_Witness ==
    /\ C3_Case
    /\ out0 = File(OldOutput)
    /\ exit = <<248>>

(***************************************************************************)
(* C4: free-text mode, input readable and no line with 32 hexadecimal      *)
(* characters in a row (the empty file too): the run fails with status     *)
(* 252 (-4) and the output file is as it was.                              *)
(***************************************************************************)
C4_ZeroHashesFail ==
    C4_Case =>
        /\ exit = <<ExitStatus(ExitZero)>>
        /\ stdout = <<"Zero hashes found -- check to see if this is correct.">>
        /\ fs[OutPath] = out0

C4_Witness ==
    /\ C4_Case
    /\ in0.data = LNoHash
    /\ out0 = File(OldOutput)
    /\ exit = <<252>>

(***************************************************************************)
(* C5: free-text mode: the failures are checked in the order arguments,    *)
(* access, zero hashes, mixed lengths; a run has one outcome; the five     *)
(* statuses 255, 254, 252, 248 and 0 are pairwise distinct.                *)
(***************************************************************************)
C5_OneOutcomeInOrder ==
    /\ Cardinality({ExitStatus(ExitNoFile), ExitStatus(ExitUnreadable),
                    ExitStatus(ExitZero), ExitStatus(ExitMixed), 0}) = 5
    /\ ConvertDone =>
        /\ exit = <<ExpectedStatus>>
        /\ Len(stdout) = IF exit = <<0>> THEN 0 ELSE 1

\* two arguments, the first of them unreadable: the argument check comes first
C5_Witness ==
    /\ ConvertDone
    /\ Len(argv) = 2
    /\ ~Access(argv[1])
    /\ exit = <<255>>

(***************************************************************************)
(* C6: fixed-offset mode: the slice [44:76] of every line of the input,    *)
(* wherever the line is, is written when it is 32 hexadecimal characters;  *)
(* other lines are skipped and the lines after them are still processed.   *)
(***************************************************************************)
C6_EveryLineProcessed ==
    (DenistifyDone /\ exit = <<0>>) =>
        fs[DummyPath].data = WithNewlines(SlicesOf(Readlines(in0.data)))

C8_OutputUntouched ==
    (pc # "idle" /\ InputUnreadable) => fs[OutputPath] = out0

(***************************************************************************)
(* C9 as stated: the token of a line is its first run of 64 hexadecimal    *)
(* characters if it has one anywhere, else its first of 40, else its       *)
(* first of 32.                                                            *)
(***************************************************************************)
C9_LongestAnywhere ==
    HasRead =>
        /\ Len(hashes) = Len(HashLines(in0.data))
        /\ \A k \in 1..Len(hashes) : hashes[k] = LongestToken(HashLines(in0.data)[k])

(***************************************************************************)
(* C9 amended: the token of a line starts where the line's first run of    *)
(* at least 32 hexadecimal characters starts, and is the 64 characters     *)
(* from there if all are hexadecimal, else the 40, else the 32; one token  *)
(* per line, none for a line without such a run.  A 32-character hash      *)
(* followed on its line by a 64-character one yields the 32-character one. *)
(***************************************************************************)
C9_LeftmostThenLongest ==
    HasRead =>
        /\ Len(hashes) = Len(HashLines(in0.data))
        /\ \A k \in 1..Len(hashes) : hashes[k] = LeftmostToken(HashLines(in0.data)[k])

C9_Witness ==
    /\ HasRead
    /\ in0.data = LBoth \o LRun
    /\ hashes = <<Md5Lower, SubSeq(LRun, 1, Sha256Len)>>

(***************************************************************************)
(* C10: convert-format.py never holds its input and its output open        *)
(* together, and a run whose input is the output of a run that exited 0    *)
(* (src/NSRLFile.txt itself, or a text of that form) exits 0 and leaves    *)
(* that text in the output file.                                           *)
(***************************************************************************)
C10_RerunIsNoOp ==
    /\ prog = "convert" => Cardinality(handles) <= 1
    /\ (ConvertDone /\ exit = <<0>>) => CanonicalList(fs[OutPath].data)
    /\ (ConvertDone /\ rerun) => exit = <<0>> /\ fs[OutPath] = out0
    /\ (ConvertDone /\ InputReadable /\ CanonicalList(in0.data)) =>
            exit = <<0>> /\ fs[OutPath] = File(in0.data)

C10_Witness ==
    /\ ConvertDone
    /\ rerun
    /\ argv = <<OutPath>>
    /\ Len(Readlines(out0.data)) = MaxLines
    /\ fs[OutPath] = out0

====
